---- MODULE Spec2Model ----
(***************************************************************************)
(* Model of the game-launcher installer (src/src/main.rs): the download    *)
(* helper, the two install flows, the recursive tree copy, the parser of   *)
(* the Steam library-description file, the post-setup operation with its   *)
(* helpers, the search for wine and the main menu.                         *)
(***************************************************************************)
EXTENDS Integers, Sequences, FiniteSets, TLC

VARIABLES
    fs,        \* the filesystem: path -> "absent" | "dir" | file content
    host,      \* which external commands can be spawned on this host
    dlLog,     \* one record per download_file call, in call order
    prog,      \* which operation this run executes
    pc,        \* position inside the running operation (install, post-setup, main)
    app,       \* "battlenet" | "hoyoplay" | "none"
    install_dir, \* the destination string read from the operator
    found_location, \* candidate selected by discovery, or "none"
    trace,     \* events of the running operation, in program order
    result,    \* how the operation ended: "running", "ok", an error, or an exit status
    vdf,       \* lines of libraryfolders.vdf
    libraries, \* value returned by find_steam_libraries
    copyCall,  \* one copy_dir_recursive call: its arguments and its outcome
    sandbox,   \* what is at <root>/steamapps/compatdata/<id>/pfx, per root and id
    prefixCall, \* one find_prefix_path call: its arguments and its outcome
    appidCall, \* one extract_appid call: the line and the value returned
    links,     \* what is at <pfx>/drive_c/Linux Root, per root and id
    linkLog,   \* one record per setup_linux_root_symlink call, in call order
    games,     \* the lines list_nonsteam_games returned
    registry,  \* sandboxes whose Decorated registry value has been written
    wineEnv,   \* what `which wine` answers and what is at each wine location
    wine_path, \* the location find_system_wine returned, "" before that
    regLog     \* one record per remove_window_decorations call, in call order

vars == <<fs, host, dlLog, prog, pc, app, install_dir, found_location,
          trace, result, vdf, libraries, copyCall, sandbox, prefixCall,
          appidCall, links, linkLog, games, registry, wineEnv, wine_path,
          regLog>>

dlVars == <<fs, host, dlLog>>
installVars == <<pc, app, install_dir, found_location, trace, result>>
vdfVars == <<vdf, libraries>>
mainVars == <<wineEnv, wine_path>>
\* state of the operations that are specified on their own
sideVars == <<copyCall, sandbox, prefixCall, appidCall, links, linkLog,
              games, registry, wineEnv, wine_path, regLog>>

----------------------------------------------------------------------------
(* Bounds *)
MaxCalls == 3     \* download_file calls in one behaviour of SpecDownload
MidFail == 3      \* I/O operations a failing tree copy completes first
NoFail == 99      \* more I/O operations than any tree copy performs
MaxLines == 3     \* lines of libraryfolders.vdf
MaxBudget == 6    \* I/O operations a copy_dir_recursive call may complete before one fails
MaxRoots == 3     \* library roots after the primary one in a find_prefix_path call
MaxLineLen == 5   \* characters of a line given to extract_appid
MaxLinkCalls == 3 \* setup_linux_root_symlink calls in one behaviour of SpecLink
MaxGames == 2     \* lines printed by protontricks -l
MaxChoices == 3   \* lines read at the main menu in one run
MaxRegCalls == 3  \* remove_window_decorations calls in one behaviour of SpecReg

----------------------------------------------------------------------------
(* Filesystem *)

Absent == "absent"
Dir == "dir"
EmptyFile == "file:"
InstallerBody == "file:setup"
PartialBody == "file:part"

\* Directories the program names, as abstract roots.
BnCandidates == <<"PF", "PF86", "CG", "BZ">>
HyCandidates == <<"HP">>
Roots == {"PF", "PF86", "CG", "BZ", "HP", "GB", "GH"}
Rel == {<< >>, <<"exe">>, <<"data">>, <<"data", "pak">>}

BnInstallerDir == <<"bn">>
BnInstaller == <<"bn", "setup">>
HyInstallerDir == <<"hy">>
HyInstaller == <<"hy", "setup">>

Paths == {<<r>> \o s : r \in Roots, s \in Rel}
           \cup {BnInstallerDir, BnInstaller, HyInstallerDir, HyInstaller}

\* order in which read_dir yields the entries of a directory
NameOrder == <<"exe", "data", "pak">>

Exists(f, p) == f[p] # Absent
IsDir(f, p) == f[p] = Dir
IsFile(f, p) == f[p] \notin {Absent, Dir}

EmptyFs == [p \in Paths |-> Absent]

----------------------------------------------------------------------------
(* download_file *)

ToolOutcomes == {"ok", "fail", "fail_partial"}
HttpOutcomes == {"ok", "send_err", "create_err", "bytes_err", "write_err"}

\* destination.exists()
DestinationSkipNever(f, dest) == FALSE
DestinationExists(f, dest) == Exists(f, dest)

\* Command::new("which").arg(tool).status().is_ok(): true as soon as the
\* `which` process could be spawned, whatever its exit status.
WhichStatusIsOk(h, tool) == h.which

\* fs::create_dir_all(parent)
CreateDirAll(f, d, io) ==
    IF IsDir(f, d) THEN [ok |-> TRUE, fs |-> f]
    ELSE IF IsFile(f, d) \/ ~io THEN [ok |-> FALSE, fs |-> f]
    ELSE [ok |-> TRUE, fs |-> [f EXCEPT ![d] = Dir]]

\* Command::new(tool)...status(): spawn fails when the tool is not installed
RunTool(f, h, tool, dest, out) ==
    IF ~h[tool] THEN [ok |-> FALSE, fs |-> f]
    ELSE IF out = "ok" THEN [ok |-> TRUE, fs |-> [f EXCEPT ![dest] = InstallerBody]]
    ELSE IF out = "fail_partial" THEN [ok |-> FALSE, fs |-> [f EXCEPT ![dest] = PartialBody]]
    ELSE [ok |-> FALSE, fs |-> f]

\* the reqwest fallback: send, File::create, bytes, write_all
HttpGet(f, dest, out) ==
    CASE out = "send_err" -> [ok |-> FALSE, fs |-> f]
      [] out = "create_err" -> [ok |-> FALSE, fs |-> f]
      [] out = "bytes_err" -> [ok |-> FALSE, fs |-> [f EXCEPT ![dest] = EmptyFile]]
      [] out = "write_err" -> [ok |-> FALSE, fs |-> [f EXCEPT ![dest] = PartialBody]]
      [] OTHER -> [ok |-> TRUE, fs |-> [f EXCEPT ![dest] = InstallerBody]]

\* the strategy cascade once the parent directory exists
TransferFallThrough(f, h, dest) ==
    LET c == RunTool(f, h, "curl", dest, h.tool)
        w == RunTool(c.fs, h, "wget", dest, h.tool)
        g == HttpGet(w.fs, dest, h.http)
    IN  IF c.ok THEN [ok |-> TRUE, fs |-> c.fs, attempts |-> <<"curl">>]
        ELSE IF w.ok THEN [ok |-> TRUE, fs |-> w.fs, attempts |-> <<"curl", "wget">>]
        ELSE [ok |-> g.ok, fs |-> g.fs, attempts |-> <<"curl", "wget", "http">>]

Transfer(f, h, dest) ==
    IF WhichStatusIsOk(h, "curl") THEN
        LET r == RunTool(f, h, "curl", dest, h.tool)
        IN  [ok |-> r.ok, fs |-> r.fs, attempts |-> <<"curl">>]
    ELSE IF WhichStatusIsOk(h, "wget") THEN
        LET r == RunTool(f, h, "wget", dest, h.tool)
        IN  [ok |-> r.ok, fs |-> r.fs, attempts |-> <<"wget">>]
    ELSE
        LET r == HttpGet(f, dest, h.http)
        IN  [ok |-> r.ok, fs |-> r.fs, attempts |-> <<"http">>]

Parent(p) == SubSeq(p, 1, Len(p) - 1)

DownloadFile(f, h, dest) ==
    IF DestinationExists(f, dest) THEN [ok |-> TRUE, fs |-> f, attempts |-> << >>]
    ELSE
        LET d == CreateDirAll(f, Parent(dest), h.io)
        IN  IF ~d.ok THEN [ok |-> FALSE, fs |-> f, attempts |-> << >>]
            ELSE Transfer(d.fs, h, dest)

\* the record kept of one call
DlRecord(f, dest, r) ==
    [dest |-> dest, existed |-> Exists(f, dest), attempts |-> r.attempts,
     ok |-> r.ok, written |-> Exists(r.fs, dest), same |-> (r.fs = f)]

\* The host of one run: the commands installed on it, whether directory
\* creation succeeds, how a started download tool ends and how the HTTP
\* exchange ends.
Hosts == [which : BOOLEAN, curl : BOOLEAN, wget : BOOLEAN, io : BOOLEAN,
          tool : ToolOutcomes, http : HttpOutcomes]

----------------------------------------------------------------------------
(* copy_dir_recursive *)

\* entries of directory p, in read_dir order
Entries(f, p) ==
    SelectSeq(NameOrder, LAMBDA n : p \o <<n>> \in Paths /\ Exists(f, p \o <<n>>))

\* one I/O operation of the copy, for the record of a call
Op(op, path, ok) == [op |-> op, path |-> path, ok |-> ok]

\* fs::copy(src, dst): b I/O operations still succeed; copying a file onto
\* itself truncates it
CopyFile(f, s, d, b) ==
    IF b = 0 \/ IsDir(f, d) \/ ~IsDir(f, Parent(d))
    THEN [ok |-> FALSE, fs |-> f, b |-> 0, log |-> <<Op("copy", d, FALSE)>>]
    ELSE IF s = d
    THEN [ok |-> TRUE, fs |-> [f EXCEPT ![d] = EmptyFile], b |-> b - 1,
          log |-> <<Op("copy", d, TRUE)>>]
    ELSE [ok |-> TRUE, fs |-> [f EXCEPT ![d] = f[s]], b |-> b - 1,
          log |-> <<Op("copy", d, TRUE)>>]

\* if !dst.exists() { fs::create_dir_all(dst)? }
EnsureDst(f, dst, b) ==
    IF Exists(f, dst) THEN [ok |-> TRUE, fs |-> f, b |-> b, log |-> << >>]
    ELSE IF b = 0 THEN [ok |-> FALSE, fs |-> f, b |-> 0, log |-> <<Op("mkdir", dst, FALSE)>>]
    ELSE [ok |-> TRUE, fs |-> [f EXCEPT ![dst] = Dir], b |-> b - 1,
          log |-> <<Op("mkdir", dst, TRUE)>>]

NeverStop(r) == FALSE
\* the `?` after each step: an error ends the loop and is returned
StopOnError(r) == ~r.ok

RECURSIVE CopyDirRecursive(_, _, _, _)
RECURSIVE CopyEntries(_, _, _, _, _)

CopyEntries(f, src, dst, names, b) ==
    IF names = << >> THEN [ok |-> TRUE, fs |-> f, b |-> b, log |-> << >>]
    ELSE
        LET s == src \o <<Head(names)>>
            d == dst \o <<Head(names)>>
            r == IF d \notin Paths
                 THEN [ok |-> FALSE, fs |-> f, b |-> 0, log |-> <<Op("copy", d, FALSE)>>]
                 ELSE IF IsDir(f, s) THEN CopyDirRecursive(f, s, d, b)
                 ELSE CopyFile(f, s, d, b)
        IN  IF StopOnError(r) THEN r
            ELSE LET rest == CopyEntries(r.fs, src, dst, Tail(names), r.b)
                 IN  [rest EXCEPT !.log = r.log \o rest.log]

CopyDirRecursive(f, src, dst, b) ==
    LET c == EnsureDst(f, dst, b)
    IN  IF ~c.ok THEN c
        \* fs::read_dir(src)?
        ELSE IF c.b = 0 \/ ~IsDir(c.fs, src)
        THEN [ok |-> FALSE, fs |-> c.fs, b |-> 0,
              log |-> Append(c.log, Op("read_dir", src, FALSE))]
        ELSE LET e == CopyEntries(c.fs, src, dst, Entries(c.fs, src), c.b - 1)
             IN  [e EXCEPT !.log = Append(c.log, Op("read_dir", src, TRUE)) \o e.log]

\* fs::remove_dir_all(root)
IsUnder(p, root) == Len(p) >= Len(root) /\ SubSeq(p, 1, Len(root)) = root
RemoveDirAll(f, root) == [p \in Paths |-> IF IsUnder(p, root) THEN Absent ELSE f[p]]

----------------------------------------------------------------------------
(* The operator at the terminal *)

\* lines read by read_line at the yes/no prompts
Answers == {"yes\n", " Y \n", "no\n", "\n"}
\* lines read at the destination prompt
TypedDirs == {"\n", " CG \n", "CG/\n", "HP\n"}

\* input.trim().to_lowercase()
TrimLower ==
    [a \in Answers |->
        CASE a = "yes\n" -> "yes" [] a = " Y \n" -> "y" [] a = "no\n" -> "no"
          [] OTHER -> ""]
\* install_dir.trim()
Trim ==
    [t \in TypedDirs |->
        CASE t = " CG \n" -> "CG" [] t = "CG/\n" -> "CG/" [] t = "HP\n" -> "HP"
          [] OTHER -> ""]

\* the directory a destination string names
Resolve(str) == IF str = "CG/" THEN <<"CG">> ELSE <<str>>

\* trim().to_lowercase() == "yes" || ... == "y"
IsYes(a) == TrimLower[a] = "yes" \/ TrimLower[a] = "y"

----------------------------------------------------------------------------
(* The pieces shared by install_battlenet and install_hoyoplay *)

Apps == {"battlenet", "hoyoplay"}
InstallerDirOf(a) == IF a = "battlenet" THEN BnInstallerDir ELSE HyInstallerDir
InstallerOf(a) == IF a = "battlenet" THEN BnInstaller ELSE HyInstaller
DefaultDir(a) == IF a = "battlenet" THEN "GB" ELSE "GH"
Candidates(a) == IF a = "battlenet" THEN BnCandidates ELSE HyCandidates

\* what the operating system reports for a started installer
RawStatuses == {"exit0", "exit1", "signal"}
SpawnFailed == -1
\* status.code().unwrap_or(1)
ExitCode(raw) == CASE raw = "exit0" -> 0 [] raw = "exit1" -> 1 [] OTHER -> 1

\* where the installer running under wine leaves its files
Places(a) == IF a = "battlenet" THEN {"nowhere", "PF86", "CG"} ELSE {"nowhere", "HP"}
PlacePayload(f, root) ==
    IF root = "nowhere" \/ IsFile(f, <<root>>) THEN f
    ELSE [f EXCEPT ![<<root>>] = Dir, ![<<root, "exe">>] = "file:exe",
                   ![<<root, "data">>] = Dir, ![<<root, "data", "pak">>] = "file:pak"]

Event(ev, arg, st) == [ev |-> ev, arg |-> arg, st |-> st]
EventsOf(tr, ev) == SelectSeq(tr, LAMBDA e : e.ev = ev)
Launches(tr) == EventsOf(tr, "launch")
Has(tr, ev) == EventsOf(tr, ev) # << >>
\* position of the first / last event of a kind (0 when there is none)
FirstIdx(tr, ev) ==
    IF Has(tr, ev) THEN CHOOSE i \in 1..Len(tr) :
        tr[i].ev = ev /\ \A j \in 1..(i - 1) : tr[j].ev # ev ELSE 0
LastIdx(tr, ev) ==
    IF Has(tr, ev) THEN CHOOSE i \in 1..Len(tr) :
        tr[i].ev = ev /\ \A j \in (i + 1)..Len(tr) : tr[j].ev # ev ELSE 0

\* location.exists() && location.is_dir()
Qualifies(f, c) == Exists(f, <<c>>) /\ IsDir(f, <<c>>)

\* the discovery loop: index of the candidate the loop breaks at, 0 if none
LastQualifying(f, cands) ==
    IF \E i \in 1..Len(cands) : Qualifies(f, cands[i])
    THEN CHOOSE i \in 1..Len(cands) :
            Qualifies(f, cands[i]) /\ \A j \in (i + 1)..Len(cands) : ~Qualifies(f, cands[j])
    ELSE 0
FirstQualifying(f, cands) ==
    IF \E i \in 1..Len(cands) : Qualifies(f, cands[i])
    THEN CHOOSE i \in 1..Len(cands) :
            Qualifies(f, cands[i]) /\ \A j \in 1..(i - 1) : ~Qualifies(f, cands[j])
    ELSE 0

\* the probes the loop performs, in order, up to the one it breaks at
ProbeEvents(f, cands) ==
    LET k == FirstQualifying(f, cands)
        n == IF k = 0 THEN Len(cands) ELSE k
    IN  [i \in 1..n |-> Event("probe", cands[i], IF Qualifies(f, cands[i]) THEN 1 ELSE 0)]

Finish(res) ==
    /\ result' = res
    /\ pc' = "done"

\* create the installer directory, download the installer, read the
\* destination and create it (main.rs 157-190 and 337-371)
Prepare(a) ==
    /\ prog = "install" /\ pc = "start"
    /\ app' = a
    /\ UNCHANGED <<host, prog, found_location, trace>> /\ UNCHANGED vdfVars /\ UNCHANGED sideVars
    /\ \E typed \in TypedDirs :
         LET d1 == CreateDirAll(fs, InstallerDirOf(a), host.io)
             dl == DownloadFile(d1.fs, host, InstallerOf(a))
             dir == IF Trim[typed] = "" THEN DefaultDir(a) ELSE Trim[typed]
             d2 == CreateDirAll(dl.fs, Resolve(dir), host.io)
         IN  IF ~d1.ok
             THEN /\ Finish("err:mkdir") /\ UNCHANGED <<fs, dlLog, install_dir>>
             ELSE /\ dlLog' = Append(dlLog, DlRecord(d1.fs, InstallerOf(a), dl))
                  /\ IF ~dl.ok
                     THEN /\ Finish("err:download") /\ fs' = dl.fs
                          /\ UNCHANGED install_dir
                     ELSE /\ install_dir' = dir
                          /\ fs' = d2.fs
                          /\ IF ~d2.ok THEN Finish("err:mkdir")
                             ELSE pc' = "launch" /\ UNCHANGED result

\* one run of the installer under wine: command.status()
RunInstaller(mode, next) ==
    \E raw \in RawStatuses \cup {"spawn_err"}, place \in Places(app) :
        /\ UNCHANGED <<host, prog, dlLog, app, install_dir, found_location>>
        /\ UNCHANGED vdfVars /\ UNCHANGED sideVars
        /\ IF raw = "spawn_err"
           THEN /\ trace' = Append(trace, Event("launch", mode, SpawnFailed))
                /\ fs' = fs
                /\ Finish("err:spawn")
           ELSE /\ trace' = Append(trace, Event("launch", mode, ExitCode(raw)))
                /\ fs' = PlacePayload(fs, place)
                /\ pc' = next[ExitCode(raw)]
                /\ UNCHANGED result

CleanupChecked(next) ==
    /\ \E r \in {"ok", "fail", "spawn_err"} :
         /\ trace' = Append(trace, Event("cleanup", r, 0))
         /\ IF r = "ok" THEN pc' = next /\ UNCHANGED result ELSE Finish("err:cleanup")
    /\ UNCHANGED <<fs, host, prog, dlLog, app, install_dir, found_location>>
    /\ UNCHANGED vdfVars /\ UNCHANGED sideVars

\* let _ = Command::new("wineserver").arg("-k")...status(): result dropped
Cleanup(next) ==
    /\ \E r \in {"ok", "fail", "spawn_err"} : trace' = Append(trace, Event("cleanup", r, 0))
    /\ pc' = next /\ UNCHANGED result
    /\ UNCHANGED <<fs, host, prog, dlLog, app, install_dir, found_location>>
    /\ UNCHANGED vdfVars /\ UNCHANGED sideVars

AlwaysAccepted(a) == TRUE
\* the continue/abort test (main.rs 246, 414)
ContinueAccepted(a) == IsYes(a)

\* "Would you like to continue anyway?"
\* a refusal returns the error at once: return Err(..)
RefusalGoesOn(next) == next
RefusalReturns(next) == "done"

AskContinue(next, err) ==
    /\ \E a \in Answers :
         /\ trace' = Append(trace, Event("ask_continue", TrimLower[a], 0))
         /\ IF ContinueAccepted(a) THEN pc' = next /\ UNCHANGED result
            ELSE result' = err /\ pc' = RefusalReturns(next)
    /\ UNCHANGED <<fs, host, prog, dlLog, app, install_dir, found_location>>
    /\ UNCHANGED vdfVars /\ UNCHANGED sideVars

Discover(next) ==
    LET k == FirstQualifying(fs, Candidates(app))
        found == IF k = 0 THEN "none" ELSE Candidates(app)[k]
    IN  /\ trace' = trace \o ProbeEvents(fs, Candidates(app))
        /\ found_location' = found
        /\ pc' = next[found]
        /\ UNCHANGED <<fs, host, prog, dlLog, app, install_dir, result>>
        /\ UNCHANGED vdfVars /\ UNCHANGED sideVars

Return ==
    /\ prog = "install" /\ pc = "return"
    /\ Finish("ok")
    /\ UNCHANGED <<fs, host, prog, dlLog, app, install_dir, found_location, trace>>
    /\ UNCHANGED vdfVars /\ UNCHANGED sideVars

CopyBudgets == {0, MidFail, NoFail}

----------------------------------------------------------------------------
(* find_steam_libraries *)

Quote == "\""
Backslash == "\\"
Whitespace == {" ", "\t", "\n"}

\* the lines a library-description file is made of, as characters
PathKey == <<Quote, "p", "a", "t", "h", Quote>>
LineText(kind) ==
    CASE kind = "path_x" -> <<"\t">> \o PathKey \o <<"\t", Quote, "x", Quote>>
      [] kind = "path_yz" -> PathKey \o <<" ", Quote, "y", Backslash, Backslash, "z", Quote>>
      [] kind = "path_w" -> PathKey \o <<" ", Quote, "w", Backslash, "w", Quote>>
      [] kind = "path_open" -> PathKey \o <<" ", Quote, "m">>
      [] kind = "label" -> <<Quote, "l", Quote, " ", Quote, "v", Quote>>
      [] OTHER -> <<"{">>
LineKinds == {"path_x", "path_yz", "path_w", "path_open", "label", "brace"}
Malformed(kind) == kind = "path_open"

RECURSIVE Content(_)
\* the text of the file: every line followed by a newline
Content(lines) ==
    IF lines = << >> THEN << >>
    ELSE LineText(Head(lines)) \o <<"\n">> \o Content(Tail(lines))

RECURSIVE SkipWhile(_, _, _)
\* first position from i on whose character is outside set S (Len+1 if none)
SkipWhile(c, i, S) ==
    IF i <= Len(c) /\ c[i] \in S THEN SkipWhile(c, i + 1, S) ELSE i

RECURSIVE SkipUntilQuote(_, _)
SkipUntilQuote(c, i) ==
    IF i <= Len(c) /\ c[i] # Quote THEN SkipUntilQuote(c, i + 1) ELSE i

\* [^"]+ : the run of characters up to the next quote, line ends included
ValueEnd(c, i) == SkipUntilQuote(c, i)

\* one match of "path"\s*"([^"]+)" starting exactly at position i
MatchAt(c, i) ==
    LET j == SkipWhile(c, i + 6, Whitespace)
        k == ValueEnd(c, j + 1)
    IN  IF /\ i + 5 <= Len(c) /\ SubSeq(c, i, i + 5) = PathKey
           /\ j <= Len(c) /\ c[j] = Quote
           /\ k > j + 1
           /\ k <= Len(c) /\ c[k] = Quote
        THEN [ok |-> TRUE, val |-> SubSeq(c, j + 1, k - 1), end |-> k + 1]
        ELSE [ok |-> FALSE, val |-> << >>, end |-> i]

RECURSIVE CapturesIter(_, _)
\* re.captures_iter: leftmost matches, each search resuming after the last
CapturesIter(c, pos) ==
    IF pos > Len(c) THEN << >>
    ELSE LET m == MatchAt(c, pos)
         IN  IF m.ok THEN <<m.val>> \o CapturesIter(c, m.end)
             ELSE CapturesIter(c, pos + 1)

ReplaceNothing(v) == v
RECURSIVE ReplaceDoubleBackslash(_)
\* .replace("\\\\", "/"): every pair of backslashes becomes one slash
ReplaceDoubleBackslash(v) ==
    IF Len(v) >= 2 /\ v[1] = Backslash /\ v[2] = Backslash
    THEN <<"/">> \o ReplaceDoubleBackslash(SubSeq(v, 3, Len(v)))
    ELSE IF v = << >> THEN << >>
    ELSE <<v[1]>> \o ReplaceDoubleBackslash(Tail(v))

SteamRoot == <<"s">>

VdfFiles(n) ==
    {[st |-> "missing", lines |-> << >>], [st |-> "unreadable", lines |-> << >>]}
      \cup {[st |-> "present", lines |-> l] :
                l \in UNION {[1..k -> LineKinds] : k \in 0..n}}
NoVdf == [st |-> "missing", lines |-> << >>]
NotCalled == [done |-> FALSE, ok |-> FALSE, libs |-> << >>]

FindSteamLibraries(file) ==
    IF file.st = "missing" THEN [done |-> TRUE, ok |-> FALSE, libs |-> << >>]
    ELSE IF file.st = "unreadable" THEN [done |-> TRUE, ok |-> FALSE, libs |-> << >>]
    ELSE LET caps == CapturesIter(Content(file.lines), 1)
         IN  [done |-> TRUE, ok |-> TRUE,
              libs |-> <<SteamRoot>> \o
                       [i \in 1..Len(caps) |-> ReplaceDoubleBackslash(caps[i])]]

----------------------------------------------------------------------------
(* find_prefix_path *)

\* library roots a description file of the model can name, and application IDs
LibRoots == {SteamRoot, <<"x">>, <<"y", "/", "z">>}
AppIds == {<<"1">>, <<"2", "1">>}
PfxKinds == {"absent", "file", "dir"}

Sandboxes == [LibRoots \X AppIds -> PfxKinds]
NoSandbox == [k \in LibRoots \X AppIds |-> "absent"]

\* lib.join(format!("steamapps/compatdata/{}/pfx", app_id))
PrefixPath(lib, id) == <<lib, "steamapps", "compatdata", id, "pfx">>

None == [some |-> FALSE, val |-> << >>]
Some(v) == [some |-> TRUE, val |-> v]

\* what is at the sandbox path of id under lib; nothing under other roots
PfxKind(sb, lib, id) == IF <<lib, id>> \in DOMAIN sb THEN sb[<<lib, id>>] ELSE "absent"

\* prefix_path.exists() && prefix_path.is_dir()
IsPrefixAny(sb, lib, id) == PfxKind(sb, lib, id) # "absent"
IsPrefixDir(sb, lib, id) ==
    PfxKind(sb, lib, id) # "absent" /\ PfxKind(sb, lib, id) = "dir"

RECURSIVE FindPrefixPath(_, _, _)
\* the loop over the libraries, returning at the first hit
FindPrefixPath(sb, id, libs) ==
    IF libs = << >> THEN None
    ELSE IF IsPrefixDir(sb, Head(libs), id) THEN Some(PrefixPath(Head(libs), id))
    ELSE FindPrefixPath(sb, id, Tail(libs))

NoPrefixCall == [done |-> FALSE, id |-> << >>, libs |-> << >>, res |-> None]

----------------------------------------------------------------------------
(* extract_appid *)

Digits == {"1", "2"}
LineChars == {"(", ")", "a"} \cup Digits
Lines(n) == UNION {[1..k -> LineChars] : k \in 0..n}

AnyPosition(c, p) == TRUE
\* $ : the end of the text
EndOfText(c, p) == p = Len(c) + 1

\* one match of \(([0-9]+)\)$ starting exactly at position i
AppidMatchAt(c, i) ==
    LET k == SkipWhile(c, i + 1, Digits)
    IN  IF /\ c[i] = "("
           /\ k > i + 1
           /\ k <= Len(c) /\ c[k] = ")"
           /\ EndOfText(c, k + 1)
        THEN Some(SubSeq(c, i + 1, k - 1))
        ELSE None

RECURSIVE AppidSearch(_, _)
\* re.captures(line): the leftmost match
AppidSearch(c, pos) ==
    IF pos > Len(c) THEN None
    ELSE IF AppidMatchAt(c, pos).some THEN AppidMatchAt(c, pos)
    ELSE AppidSearch(c, pos + 1)

\* re.captures(line).and_then(|caps| caps.get(1).map(|m| m.as_str().to_string()))
ExtractAppid(line) == AppidSearch(line, 1)

NoAppidCall == [done |-> FALSE, line |-> << >>, res |-> None]

----------------------------------------------------------------------------
(* setup_linux_root_symlink *)

\* what can be at drive_c/Linux Root: nothing, a link to /, or a folder
LinkKinds == {"absent", "link", "dir"}
NoLinks == [k \in LibRoots \X AppIds |-> "absent"]
\* how `ln -s / <link>` ends: exit 0, exit non-zero, or not started
LnOutcomes == {"ok", "fail", "spawn_err"}

LinkNeverExists(lk, pfx) == FALSE
\* linux_root_link.exists()
LinkExists(lk, pfx) == lk[pfx] # "absent"

\* one call on the sandbox pfx; ran tells whether ln was invoked
SetupLinuxRootSymlink(lk, pfx, ln) ==
    IF LinkExists(lk, pfx) THEN [ok |-> TRUE, links |-> lk, ran |-> FALSE]
    ELSE IF ln = "ok" THEN [ok |-> TRUE, links |-> [lk EXCEPT ![pfx] = "link"], ran |-> TRUE]
    ELSE [ok |-> FALSE, links |-> lk, ran |-> TRUE]

\* the record kept of one call
LinkRecord(lk, pfx, ln, r) ==
    [pfx |-> pfx, before |-> lk[pfx], after |-> r.links[pfx], ran |-> r.ran,
     created |-> (r.ran /\ ln = "ok"), ok |-> r.ok, same |-> (r.links = lk)]

----------------------------------------------------------------------------
(* run_hoyoplay_postsetup and the helpers it calls *)

\* how `which protontricks` ends
WhichOutcomes == {"found", "not_found", "spawn_err"}
\* .status().map(|status| status.success()).unwrap_or(false)
CheckProtontricks(w) == w = "found"

\* one character standing for the text "Non-Steam shortcut:"
ShortcutMark == "N"
\* lines `protontricks -l` prints
OutputLines == {<<ShortcutMark, "a", "(", "1", ")">>,
                <<ShortcutMark, "b", "(", "2", "1", ")">>,
                <<ShortcutMark, "c">>,
                <<"s", "(", "1", ")">>}
\* one run of `protontricks -l`: not started, exit non-zero, output that is
\* no UTF-8, or up to n lines
ProtontricksRuns(n) ==
    {[st |-> e, lines |-> << >>] : e \in {"spawn_err", "fail", "bad_utf8"}}
      \cup {[st |-> "ok", lines |-> l] : l \in UNION {[1..k -> OutputLines] : k \in 0..n}}

\* line.contains("Non-Steam shortcut:")
IsShortcut(line) == \E i \in 1..Len(line) : line[i] = ShortcutMark

ListNonSteamGames(run) ==
    IF run.st # "ok" THEN [ok |-> FALSE, games |-> << >>]
    ELSE [ok |-> TRUE, games |-> SelectSeq(run.lines, IsShortcut)]

\* lines read at the selection prompt
Selections == {"1\n", " 2 \n", "0\n", "3\n", "x\n"}
\* input.trim().parse::<usize>()
ParseUsize ==
    [t \in Selections |->
        CASE t = "1\n" -> [ok |-> TRUE, val |-> 1]
          [] t = " 2 \n" -> [ok |-> TRUE, val |-> 2]
          [] t = "0\n" -> [ok |-> TRUE, val |-> 0]
          [] t = "3\n" -> [ok |-> TRUE, val |-> 3]
          [] OTHER -> [ok |-> FALSE, val |-> 0]]
\* Ok(i) if i >= 1 && i <= games.len()
ValidSelection(t, n) == ParseUsize[t].ok /\ ParseUsize[t].val >= 1 /\ ParseUsize[t].val <= n

\* the sandbox a prefix path lies in
SandboxKey(path) == <<path[1], path[4]>>

\* how `wine reg add ...` ends
RegOutcomes == {"ok", "fail", "spawn_err"}
WineBin(w64) == IF w64 THEN "wine64" ELSE "wine"
RemoveWindowDecorations(reg, key, out) ==
    IF out = "ok" THEN [ok |-> TRUE, registry |-> reg \cup {key}]
    ELSE [ok |-> FALSE, registry |-> reg]

\* what `which wine64` answers on a host where `which` runs
Which64(has64) == IF has64 THEN "found" ELSE "not_found"

Wine64Never(w) == FALSE
\* Command::new("which").arg("wine64").status().map(|s| s.success()).unwrap_or(false)
Wine64Found(w) == w = "found"

\* one call with everything it runs: the commands started after the lookup,
\* each with the binary used and how it ended
RemoveDecorationsCall(reg, key, has64, out) ==
    LET bin == WineBin(Wine64Found(Which64(has64)))
        r == RemoveWindowDecorations(reg, key, out)
    IN  [ok |-> r.ok, registry |-> r.registry, cmds |-> <<[bin |-> bin, out |-> out]>>]

\* the record kept of one call
RegRecord(reg, key, has64, out, r) ==
    [key |-> key, has64 |-> has64, out |-> out, cmds |-> r.cmds, ok |-> r.ok,
     written |-> (key \in r.registry), same |-> (r.registry = reg)]

----------------------------------------------------------------------------
(* find_system_wine *)

\* the fixed locations, in the order they are tried, and one more directory
\* of PATH
WinePaths == <<"/usr/bin/wine", "/usr/local/bin/wine">>
WineLocations == {"/usr/bin/wine", "/usr/local/bin/wine", "/opt/wine"}
\* `which wine`: not started, exit non-zero, exit 0 with empty output, or a path
WhichWine == {"spawn_err", "fail", "empty"} \cup WineLocations

WineEnvs ==
    [which : WhichWine,
     kind : [WineLocations -> {"absent", "dir", "file"}],
     version : [WineLocations -> {"ok", "fail"}]]
NoWineEnv ==
    [which |-> "fail", kind |-> [l \in WineLocations |-> "absent"],
     version |-> [l \in WineLocations |-> "fail"]]

\* Command::new(path).arg("--version").output() is Ok with a successful
\* status: only a file can be started
VersionOk(env, loc) == env.kind[loc] = "file" /\ env.version[loc] = "ok"

\* the attempt through PATH (main.rs 37-55)
WineFromPath(env) ==
    IF /\ env.which \in WineLocations
       /\ env.kind[env.which] # "absent"
       /\ VersionOk(env, env.which)
    THEN Some(env.which) ELSE None

\* path.exists() && metadata.is_file() && `--version` succeeds
WineAt(env, loc) ==
    env.kind[loc] # "absent" /\ env.kind[loc] = "file" /\ VersionOk(env, loc)

RECURSIVE WineFromFixed(_, _)
WineFromFixed(env, locs) ==
    IF locs = << >> THEN None
    ELSE IF WineAt(env, Head(locs)) THEN Some(Head(locs))
    ELSE WineFromFixed(env, Tail(locs))

\* the lookup candidate is tried first; the fixed locations only after it
LookupNeverWins(r) == FALSE
LookupWins(r) == r.some

FindSystemWine(env) ==
    IF LookupWins(WineFromPath(env)) THEN WineFromPath(env)
    ELSE WineFromFixed(env, WinePaths)

\* what the search does on the way: a "wine_version" event for every
\* `--version` it starts, a "wine_fixed" event for every fixed location it
\* examines (st = 1 when the location is a regular file)
PathProbes(env) ==
    IF env.which \in WineLocations /\ env.kind[env.which] # "absent"
    THEN <<Event("wine_version", env.which, IF VersionOk(env, env.which) THEN 1 ELSE 0)>>
    ELSE << >>

RECURSIVE FixedProbes(_, _)
FixedProbes(env, locs) ==
    IF locs = << >> THEN << >>
    ELSE LET l == Head(locs)
             regular == env.kind[l] # "absent" /\ env.kind[l] = "file"
         IN  <<Event("wine_fixed", l, IF regular THEN 1 ELSE 0)>>
             \o (IF regular
                 THEN <<Event("wine_version", l, IF VersionOk(env, l) THEN 1 ELSE 0)>>
                 ELSE << >>)
             \o (IF WineAt(env, l) THEN << >> ELSE FixedProbes(env, Tail(locs)))

WineProbes(env) ==
    PathProbes(env)
    \o (IF LookupWins(WineFromPath(env)) THEN << >> ELSE FixedProbes(env, WinePaths))

----------------------------------------------------------------------------
(* install_battlenet *)

Running(a, at) == prog = "install" /\ app = a /\ pc = at

BnPrepare == Prepare("battlenet")

BnSilentLaunch ==
    /\ Running("battlenet", "launch")
    /\ RunInstaller("silent", [c \in {0, 1} |-> IF c = 0 THEN "cleanup" ELSE "interactive"])

BnInteractiveLaunch ==
    /\ Running("battlenet", "interactive")
    /\ RunInstaller("interactive", [c \in {0, 1} |-> IF c = 0 THEN "cleanup" ELSE "ask"])

BnAskContinue ==
    /\ Running("battlenet", "ask")
    /\ AskContinue("cleanup", "err:cancelled")

BnCleanup ==
    /\ Running("battlenet", "cleanup")
    /\ Cleanup("discover")

\* source_path.to_string_lossy() != install_dir: a comparison of strings
NeedsCopy(found, dir) == found # dir

BnAfterDiscovery(found) ==
    IF found # "none" /\ NeedsCopy(found, install_dir) THEN "copy" ELSE "return"

BnDiscover ==
    /\ Running("battlenet", "discover")
    /\ Discover([c \in Roots \cup {"none"} |-> BnAfterDiscovery(c)])

\* Err(e) => println!("Error copying files")
BnCopyFailed == "return"

BnCopy ==
    /\ Running("battlenet", "copy")
    /\ \E b \in CopyBudgets :
         LET r == CopyDirRecursive(fs, <<found_location>>, Resolve(install_dir), b)
         IN  /\ fs' = r.fs
             /\ trace' = Append(trace, Event("copy", IF r.ok THEN "ok" ELSE "err", 0))
             /\ pc' = IF r.ok THEN "ask_delete" ELSE BnCopyFailed
    /\ UNCHANGED <<host, prog, dlLog, app, install_dir, found_location, result>>
    /\ UNCHANGED vdfVars /\ UNCHANGED sideVars

\* the delete-original test (main.rs 299)
DeleteAccepted(a) == IsYes(a)

BnAskDelete ==
    /\ Running("battlenet", "ask_delete")
    /\ \E a \in Answers, rm \in {"ok", "err"} :
         IF DeleteAccepted(a)
         THEN /\ trace' = trace \o <<Event("ask_delete", TrimLower[a], 0), Event("remove", rm, 0)>>
              /\ fs' = IF rm = "ok" THEN RemoveDirAll(fs, <<found_location>>) ELSE fs
         ELSE /\ trace' = Append(trace, Event("ask_delete", TrimLower[a], 0))
              /\ fs' = fs
    /\ pc' = "return"
    /\ UNCHANGED <<host, prog, dlLog, app, install_dir, found_location, result>>
    /\ UNCHANGED vdfVars /\ UNCHANGED sideVars

----------------------------------------------------------------------------
(* install_hoyoplay *)

HyPrepare == Prepare("hoyoplay")

HyLaunch ==
    /\ Running("hoyoplay", "launch")
    /\ RunInstaller("hidden", [c \in {0, 1} |-> "cleanup"])

\* install_status of the launch, read again after the cleanup
LastLaunchCode(tr) == Launches(tr)[Len(Launches(tr))].st

HyCleanup ==
    /\ Running("hoyoplay", "cleanup")
    /\ Cleanup(IF LastLaunchCode(trace) # 0 THEN "ask" ELSE "discover")

HyAskContinue ==
    /\ Running("hoyoplay", "ask")
    /\ AskContinue("discover", "err:cancelled")

HyAfterDiscovery(found) == IF found # "none" THEN "copy" ELSE "return"

HyDiscover ==
    /\ Running("hoyoplay", "discover")
    /\ Discover([c \in Roots \cup {"none"} |-> HyAfterDiscovery(c)])

HyCopy ==
    /\ Running("hoyoplay", "copy")
    /\ \E b \in CopyBudgets :
         LET r == CopyDirRecursive(fs, <<found_location>>, Resolve(install_dir), b)
         IN  /\ fs' = r.fs
             /\ trace' = Append(trace, Event("copy", IF r.ok THEN "ok" ELSE "err", 0))
             /\ IF r.ok THEN pc' = "remove" /\ UNCHANGED result
                ELSE Finish("err:copy")
    /\ UNCHANGED <<host, prog, dlLog, app, install_dir, found_location>>
    /\ UNCHANGED vdfVars /\ UNCHANGED sideVars

\* fs::remove_dir_all(&hoyo_src), without a question
HyRemove ==
    /\ Running("hoyoplay", "remove")
    /\ \E rm \in {"ok", "err"} :
         /\ trace' = Append(trace, Event("remove", rm, 0))
         /\ IF rm = "ok"
            THEN /\ fs' = RemoveDirAll(fs, <<found_location>>)
                 /\ pc' = "return" /\ UNCHANGED result
            ELSE /\ fs' = fs
                 /\ Finish("err:remove")
    /\ UNCHANGED <<host, prog, dlLog, app, install_dir, found_location>>
    /\ UNCHANGED vdfVars /\ UNCHANGED sideVars

----------------------------------------------------------------------------
(* Specification of one install *)

\* the parts of the state an operation that is not running leaves alone
InertInstall ==
    /\ pc = "idle" /\ app = "none" /\ install_dir = "" /\ found_location = "none"
    /\ trace = << >> /\ result = "running"
InertVdf == vdf = NoVdf /\ libraries = NotCalled
NoCopy == [done |-> FALSE, src |-> << >>, dst |-> << >>, before |-> EmptyFs,
           ok |-> FALSE, log |-> << >>]
InertCopy == copyCall = NoCopy
InertPrefix == sandbox = NoSandbox /\ prefixCall = NoPrefixCall
InertAppid == appidCall = NoAppidCall
InertLink == links = NoLinks /\ linkLog = << >>
InertPs == games = << >> /\ registry = {}
InertMain == wineEnv = NoWineEnv /\ wine_path = ""
InertReg == regLog = << >>
InertSide ==
    /\ InertCopy /\ InertPrefix /\ InertAppid /\ InertLink /\ InertPs /\ InertMain
    /\ InertReg

InstallHosts ==
    {h \in Hosts : /\ h.tool = "ok" /\ h.http = "ok" /\ h.wget = h.curl
                   /\ (h.io \/ (h.which /\ h.curl))}

\* the filesystem before the run: the installer may be there from an earlier
\* run, and the first candidate may exist as something that is no directory
InitialFs(installers, pfFile) ==
    [p \in Paths |->
        IF p \in installers THEN InstallerBody
        ELSE IF \E q \in installers : Parent(q) = p THEN Dir
        ELSE IF pfFile /\ p = <<"PF">> THEN "file:stray"
        ELSE Absent]

InitInstall ==
    /\ prog = "install"
    /\ host \in InstallHosts
    /\ \E pre \in {{}, {BnInstaller, HyInstaller}}, pfFile \in BOOLEAN :
          fs = InitialFs(pre, pfFile)
    /\ dlLog = << >>
    /\ pc = "start" /\ app = "none" /\ install_dir = "" /\ found_location = "none"
    /\ trace = << >> /\ result = "running"
    /\ InertVdf /\ InertSide

Next ==
    \/ BnPrepare \/ BnSilentLaunch \/ BnInteractiveLaunch \/ BnAskContinue
    \/ BnCleanup \/ BnDiscover \/ BnCopy \/ BnAskDelete
    \/ HyPrepare \/ HyLaunch \/ HyCleanup \/ HyAskContinue
    \/ HyDiscover \/ HyCopy \/ HyRemove
    \/ Return

Spec == InitInstall /\ [][Next]_vars

\* the install runs to its end: every prompt is answered and every command
\* started returns, so a step that can be taken is taken
SpecFair == Spec /\ WF_vars(Next)

----------------------------------------------------------------------------
(* Specification of repeated download_file calls *)

InitDownload ==
    /\ prog = "download"
    /\ host \in Hosts
    /\ \E pre \in SUBSET {BnInstaller, HyInstaller} : fs = InitialFs(pre, FALSE)
    /\ dlLog = << >>
    /\ InertInstall /\ InertVdf /\ InertSide

DownloadCall ==
    /\ prog = "download"
    /\ Len(dlLog) < MaxCalls
    /\ \E dest \in {BnInstaller, HyInstaller} :
          LET r == DownloadFile(fs, host, dest)
          IN  /\ fs' = r.fs
              /\ dlLog' = Append(dlLog, DlRecord(fs, dest, r))
    /\ UNCHANGED <<host, prog>>
    /\ UNCHANGED installVars /\ UNCHANGED vdfVars /\ UNCHANGED sideVars

NextDownload == DownloadCall

SpecDownload == InitDownload /\ [][NextDownload]_vars

----------------------------------------------------------------------------
(* Specification of find_steam_libraries on a bounded file *)

InitVdf ==
    /\ prog = "libraries"
    /\ host \in InstallHosts /\ host.io /\ host.which /\ host.curl
    /\ fs = EmptyFs /\ dlLog = << >>
    /\ InertInstall
    /\ vdf \in VdfFiles(MaxLines)
    /\ libraries = NotCalled
    /\ InertSide

FindLibraries ==
    /\ prog = "libraries"
    /\ ~libraries.done
    /\ libraries' = FindSteamLibraries(vdf)
    /\ UNCHANGED <<fs, host, dlLog, prog, vdf>>
    /\ UNCHANGED installVars /\ UNCHANGED sideVars

NextVdf == FindLibraries

SpecVdf == InitVdf /\ [][NextVdf]_vars

----------------------------------------------------------------------------
(* Specification of one copy_dir_recursive call *)

\* the tree under the source, and what is at the destination before the call
SrcShapes == {"full", "flat", "deep", "empty"}
DstShapes == {"absent", "empty", "stale", "conflict", "same"}
CopySources == {<<"PF86">>, <<"CG">>}
CopyDst == <<"GB">>

SrcTree(root, shape) ==
    [p \in Paths |->
        IF p = root THEN Dir
        ELSE IF p = root \o <<"exe">> /\ shape \in {"full", "flat"} THEN "file:exe"
        ELSE IF p = root \o <<"data">> /\ shape \in {"full", "deep"} THEN Dir
        ELSE IF p = root \o <<"data", "pak">> /\ shape \in {"full", "deep"} THEN "file:pak"
        ELSE Absent]

\* stale: files of an earlier copy; conflict: a directory where a file goes
DstTree(f, shape) ==
    CASE shape = "empty" -> [f EXCEPT ![CopyDst] = Dir]
      [] shape = "stale" -> [f EXCEPT ![CopyDst] = Dir, ![CopyDst \o <<"exe">>] = "file:old"]
      [] shape = "conflict" -> [f EXCEPT ![CopyDst] = Dir, ![CopyDst \o <<"exe">>] = Dir]
      [] OTHER -> f

\* the failure points of a call: the number of I/O operations that succeed
CopyFailPoints == (0..MaxBudget) \cup {NoFail}

InitCopy ==
    /\ prog = "copy"
    /\ host \in InstallHosts /\ host.io /\ host.which /\ host.curl
    /\ dlLog = << >>
    /\ InertInstall /\ InertVdf /\ InertPrefix /\ InertAppid /\ InertLink /\ InertPs /\ InertMain
    /\ InertReg
    /\ \E src \in CopySources, sh \in SrcShapes, dsh \in DstShapes :
          /\ fs = DstTree(SrcTree(src, sh), dsh)
          /\ copyCall = [done |-> FALSE, src |-> src,
                         dst |-> IF dsh = "same" THEN src ELSE CopyDst,
                         before |-> DstTree(SrcTree(src, sh), dsh),
                         ok |-> FALSE, log |-> << >>]

CopyTree ==
    /\ prog = "copy"
    /\ ~copyCall.done
    /\ \E b \in CopyFailPoints :
         LET r == CopyDirRecursive(fs, copyCall.src, copyCall.dst, b)
         IN  /\ fs' = r.fs
             /\ copyCall' = [copyCall EXCEPT !.done = TRUE, !.ok = r.ok, !.log = r.log]
    /\ UNCHANGED <<host, dlLog, prog, sandbox, prefixCall, appidCall, links, linkLog,
                 games, registry>>
    /\ UNCHANGED installVars /\ UNCHANGED vdfVars /\ UNCHANGED mainVars /\ UNCHANGED regLog

NextCopy == CopyTree

SpecCopy == InitCopy /\ [][NextCopy]_vars

----------------------------------------------------------------------------
(* Specification of one find_prefix_path call *)

\* the lists find_steam_libraries can return: the primary root, then others
RootLists(n) ==
    {<<SteamRoot>> \o t : t \in UNION {[1..k -> LibRoots] : k \in 0..n}}

InitPrefix ==
    /\ prog = "prefix"
    /\ host \in InstallHosts /\ host.io /\ host.which /\ host.curl
    /\ fs = EmptyFs /\ dlLog = << >>
    /\ InertInstall /\ InertVdf /\ InertCopy /\ InertAppid /\ InertLink /\ InertPs /\ InertMain
    /\ InertReg
    /\ sandbox \in Sandboxes
    /\ \E id \in AppIds, libs \in RootLists(MaxRoots) :
          prefixCall = [done |-> FALSE, id |-> id, libs |-> libs, res |-> None]

FindPrefix ==
    /\ prog = "prefix"
    /\ ~prefixCall.done
    /\ prefixCall' = [prefixCall EXCEPT !.done = TRUE,
                         !.res = FindPrefixPath(sandbox, prefixCall.id, prefixCall.libs)]
    /\ UNCHANGED <<fs, host, dlLog, prog, copyCall, sandbox, appidCall, links, linkLog,
                 games, registry>>
    /\ UNCHANGED installVars /\ UNCHANGED vdfVars /\ UNCHANGED mainVars /\ UNCHANGED regLog

NextPrefix == FindPrefix

SpecPrefix == InitPrefix /\ [][NextPrefix]_vars

----------------------------------------------------------------------------
(* Specification of one extract_appid call *)

InitAppid ==
    /\ prog = "appid"
    /\ host \in InstallHosts /\ host.io /\ host.which /\ host.curl
    /\ fs = EmptyFs /\ dlLog = << >>
    /\ InertInstall /\ InertVdf /\ InertCopy /\ InertPrefix /\ InertLink /\ InertPs /\ InertMain
    /\ InertReg
    /\ \E l \in Lines(MaxLineLen) :
          appidCall = [done |-> FALSE, line |-> l, res |-> None]

ExtractFromLine ==
    /\ prog = "appid"
    /\ ~appidCall.done
    /\ appidCall' = [appidCall EXCEPT !.done = TRUE, !.res = ExtractAppid(appidCall.line)]
    /\ UNCHANGED <<fs, host, dlLog, prog, copyCall, sandbox, prefixCall, links, linkLog,
                 games, registry>>
    /\ UNCHANGED installVars /\ UNCHANGED vdfVars /\ UNCHANGED mainVars /\ UNCHANGED regLog

NextAppid == ExtractFromLine

SpecAppid == InitAppid /\ [][NextAppid]_vars

----------------------------------------------------------------------------
(* Specification of repeated setup_linux_root_symlink calls *)

LinkTargets == {<<SteamRoot, <<"1">>>>, <<<<"x">>, <<"1">>>>}

InitLink ==
    /\ prog = "link"
    /\ host \in InstallHosts /\ host.io /\ host.which /\ host.curl
    /\ fs = EmptyFs /\ dlLog = << >>
    /\ InertInstall /\ InertVdf /\ InertCopy /\ InertAppid /\ InertPs /\ InertMain
    /\ InertReg
    /\ prefixCall = NoPrefixCall
    /\ sandbox = [k \in LibRoots \X AppIds |-> IF k \in LinkTargets THEN "dir" ELSE "absent"]
    /\ links \in {lk \in [LibRoots \X AppIds -> LinkKinds] :
                     \A k \in LibRoots \X AppIds : k \notin LinkTargets => lk[k] = "absent"}
    /\ linkLog = << >>

SetupLink ==
    /\ prog = "link"
    /\ Len(linkLog) < MaxLinkCalls
    /\ \E pfx \in LinkTargets, ln \in LnOutcomes :
          LET r == SetupLinuxRootSymlink(links, pfx, ln)
          IN  /\ links' = r.links
              /\ linkLog' = Append(linkLog, LinkRecord(links, pfx, ln, r))
    /\ UNCHANGED <<fs, host, dlLog, prog, copyCall, sandbox, prefixCall, appidCall,
                 games, registry>>
    /\ UNCHANGED installVars /\ UNCHANGED vdfVars /\ UNCHANGED mainVars /\ UNCHANGED regLog

NextLink == SetupLink

SpecLink == InitLink /\ [][NextLink]_vars

----------------------------------------------------------------------------
(* Specification of repeated remove_window_decorations calls *)

InitReg ==
    /\ prog = "reg"
    /\ host \in InstallHosts /\ host.io /\ host.which /\ host.curl
    /\ fs = EmptyFs /\ dlLog = << >>
    /\ InertInstall /\ InertVdf /\ InertCopy /\ InertAppid /\ InertMain
    /\ prefixCall = NoPrefixCall
    /\ sandbox = [k \in LibRoots \X AppIds |-> IF k \in LinkTargets THEN "dir" ELSE "absent"]
    /\ links = NoLinks /\ linkLog = << >>
    /\ games = << >>
    /\ registry \in SUBSET LinkTargets
    /\ regLog = << >>

RemoveDecorations ==
    /\ prog = "reg"
    /\ Len(regLog) < MaxRegCalls
    /\ \E key \in LinkTargets, has64 \in BOOLEAN, out \in RegOutcomes :
          LET r == RemoveDecorationsCall(registry, key, has64, out)
          IN  /\ registry' = r.registry
              /\ regLog' = Append(regLog, RegRecord(registry, key, has64, out, r))
    /\ UNCHANGED <<fs, host, dlLog, prog, copyCall, sandbox, prefixCall, appidCall,
                   links, linkLog, games>>
    /\ UNCHANGED installVars /\ UNCHANGED vdfVars /\ UNCHANGED mainVars

NextReg == RemoveDecorations

SpecReg == InitReg /\ [][NextReg]_vars

----------------------------------------------------------------------------
(* Specification of one run_hoyoplay_postsetup call *)

\* what post-setup never changes
psFrame == <<fs, host, dlLog, prog, app, install_dir, found_location, vdf,
             copyCall, sandbox, wineEnv, wine_path, regLog>>

PsAt(at) == prog = "postsetup" /\ pc = at

PsCheck ==
    /\ PsAt("start")
    /\ \E w \in WhichOutcomes :
         /\ trace' = Append(trace, Event("check", w, 0))
         /\ IF CheckProtontricks(w) THEN pc' = "list" /\ UNCHANGED result
            ELSE Finish("err:protontricks")
    /\ UNCHANGED psFrame
    /\ UNCHANGED <<libraries, prefixCall, appidCall, links, linkLog, games, registry>>

PsList ==
    /\ PsAt("list")
    /\ \E run \in ProtontricksRuns(MaxGames) :
         LET r == ListNonSteamGames(run)
         IN  /\ trace' = Append(trace, Event("list", run.st, Len(r.games)))
             /\ games' = r.games
             /\ IF ~r.ok THEN Finish("err:list")
                ELSE IF r.games = << >> THEN Finish("err:nogames")
                ELSE pc' = "select" /\ UNCHANGED result
    /\ UNCHANGED psFrame
    /\ UNCHANGED <<libraries, prefixCall, appidCall, links, linkLog, registry>>

PsSelect ==
    /\ PsAt("select")
    /\ \E t \in Selections :
         IF ValidSelection(t, Len(games))
         THEN /\ trace' = Append(trace, Event("select", "valid", ParseUsize[t].val))
              /\ appidCall' = [done |-> FALSE, line |-> games[ParseUsize[t].val], res |-> None]
              /\ pc' = "appid" /\ UNCHANGED result
         ELSE /\ trace' = Append(trace, Event("select", "invalid", 0))
              /\ UNCHANGED appidCall
              /\ Finish("err:selection")
    /\ UNCHANGED psFrame
    /\ UNCHANGED <<libraries, prefixCall, links, linkLog, games, registry>>

PsExtract ==
    /\ PsAt("appid")
    /\ LET r == ExtractAppid(appidCall.line)
       IN  /\ appidCall' = [appidCall EXCEPT !.done = TRUE, !.res = r]
           /\ trace' = Append(trace, Event("appid", IF r.some THEN "some" ELSE "none", 0))
           /\ IF r.some THEN pc' = "libraries" /\ UNCHANGED result
              ELSE Finish("err:appid")
    /\ UNCHANGED psFrame
    /\ UNCHANGED <<libraries, prefixCall, links, linkLog, games, registry>>

PsLibraries ==
    /\ PsAt("libraries")
    /\ LET r == FindSteamLibraries(vdf)
       IN  /\ libraries' = r
           /\ trace' = Append(trace, Event("libraries", IF r.ok THEN "ok" ELSE "err", 0))
           /\ IF r.ok THEN pc' = "prefix" /\ UNCHANGED result
              ELSE Finish("err:libraries")
    /\ UNCHANGED psFrame
    /\ UNCHANGED <<prefixCall, appidCall, links, linkLog, games, registry>>

PsPrefix ==
    /\ PsAt("prefix")
    /\ LET r == FindPrefixPath(sandbox, appidCall.res.val, libraries.libs)
       IN  /\ prefixCall' = [done |-> TRUE, id |-> appidCall.res.val,
                             libs |-> libraries.libs, res |-> r]
           /\ trace' = Append(trace, Event("prefix", IF r.some THEN "some" ELSE "none", 0))
           /\ IF r.some THEN pc' = "link" /\ UNCHANGED result
              ELSE Finish("err:prefix")
    /\ UNCHANGED psFrame
    /\ UNCHANGED <<libraries, appidCall, links, linkLog, games, registry>>

LinkStepIgnored(r) == FALSE
\* setup_linux_root_symlink(&prefix_path)? : an error ends post-setup
LinkStepFailed(r) == ~r.ok

PsLink ==
    /\ PsAt("link")
    /\ \E ln \in LnOutcomes :
         LET key == SandboxKey(prefixCall.res.val)
             r == SetupLinuxRootSymlink(links, key, ln)
         IN  /\ links' = r.links
             /\ linkLog' = Append(linkLog, LinkRecord(links, key, ln, r))
             /\ trace' = Append(trace, Event("link", IF r.ran THEN ln ELSE "skipped",
                                             IF r.ok THEN 1 ELSE 0))
             /\ IF LinkStepFailed(r) THEN Finish("err:link")
                ELSE pc' = "registry" /\ UNCHANGED result
    /\ UNCHANGED psFrame
    /\ UNCHANGED <<libraries, prefixCall, appidCall, games, registry>>

PsRegistry ==
    /\ PsAt("registry")
    /\ \E w64 \in BOOLEAN, out \in RegOutcomes :
         LET r == RemoveWindowDecorations(registry, SandboxKey(prefixCall.res.val), out)
         IN  /\ registry' = r.registry
             /\ trace' = Append(trace, Event("reg", WineBin(w64), IF r.ok THEN 1 ELSE 0))
             /\ Finish(IF r.ok THEN "ok" ELSE "err:registry")
    /\ UNCHANGED psFrame
    /\ UNCHANGED <<libraries, prefixCall, appidCall, links, linkLog, games>>

\* sandboxes of the run: application 1 under the primary root and under x,
\* application 21 under x
PsSandboxes ==
    {sb \in Sandboxes :
        /\ sb[<<SteamRoot, <<"2", "1">>>>] = "absent"
        /\ sb[<<<<"x">>, <<"2", "1">>>>] # "file"
        /\ \A id \in AppIds : sb[<<<<"y", "/", "z">>, id>>] = "absent"}

InitPostSetup ==
    /\ prog = "postsetup"
    /\ host \in InstallHosts /\ host.io /\ host.which /\ host.curl
    /\ fs = EmptyFs /\ dlLog = << >>
    /\ pc = "start" /\ app = "none" /\ install_dir = "" /\ found_location = "none"
    /\ trace = << >> /\ result = "running"
    /\ vdf \in VdfFiles(1) /\ libraries = NotCalled
    /\ InertCopy /\ InertAppid
    /\ sandbox \in PsSandboxes /\ prefixCall = NoPrefixCall
    /\ \E kind \in {"absent", "dir"} :
          links = [k \in LibRoots \X AppIds |->
                      IF sandbox[k] = "dir" THEN kind ELSE "absent"]
    /\ linkLog = << >>
    /\ InertPs /\ InertMain
    /\ InertReg

NextPostSetup ==
    \/ PsCheck \/ PsList \/ PsSelect \/ PsExtract
    \/ PsLibraries \/ PsPrefix \/ PsLink \/ PsRegistry

SpecPostSetup == InitPostSetup /\ [][NextPostSetup]_vars

----------------------------------------------------------------------------
(* Specification of main: the search for wine and the menu *)

\* lines read at the menu prompt, and choice.trim()
Choices == {"1\n", " 2 \n", "3\n", "4\n", "5\n", "\n"}
TrimChoice ==
    [c \in Choices |->
        CASE c = "1\n" -> "1" [] c = " 2 \n" -> "2" [] c = "3\n" -> "3"
          [] c = "4\n" -> "4" [] c = "5\n" -> "5" [] OTHER -> ""]

\* what main never changes itself; the operations it calls are specified on
\* their own and appear here as one event with their result
mainFrame == <<fs, host, dlLog, prog, app, install_dir, found_location, vdf, libraries,
               copyCall, sandbox, prefixCall, appidCall, links, linkLog, games,
               registry, wineEnv, regLog>>

MainAt(at) == prog = "main" /\ pc = at

WineNeverMissing(r) == FALSE
\* None => { ...; std::process::exit(1) }
WineMissing(r) == ~r.some

MainFindWine ==
    /\ MainAt("start")
    /\ LET r == FindSystemWine(wineEnv)
       IN  /\ trace' = (trace \o WineProbes(wineEnv))
                       \o <<Event("find_wine", IF r.some THEN "some" ELSE "none", 0)>>
           /\ IF WineMissing(r) THEN Finish("exit1") /\ UNCHANGED wine_path
              ELSE wine_path' = r.val /\ pc' = "menu" /\ UNCHANGED result
    /\ UNCHANGED mainFrame

\* the arm of the match a choice selects
MenuArm(c) ==
    CASE TrimChoice[c] = "1" -> "battlenet"
      [] TrimChoice[c] = "2" -> "hoyoplay"
      [] TrimChoice[c] = "3" -> "confirm"
      [] TrimChoice[c] = "4" -> "exit"
      [] OTHER -> "menu"

MainMenu ==
    /\ MainAt("menu")
    /\ Len(EventsOf(trace, "choice")) < MaxChoices
    /\ \E c \in Choices :
         /\ trace' = Append(trace, Event("choice", TrimChoice[c], 0))
         /\ IF MenuArm(c) = "exit" THEN Finish("exit0")
            ELSE pc' = MenuArm(c) /\ UNCHANGED result
    /\ UNCHANGED mainFrame /\ UNCHANGED wine_path

\* `break` after a completed operation leaves the menu loop
NoBreak(at) == "menu"
Break(at) == "done"

\* an operation called from the menu: its error is returned from main
MainRun(at, op) ==
    /\ MainAt(at)
    /\ \E r \in {"ok", "err"} :
         /\ trace' = Append(trace, Event(op, r, 0))
         /\ IF r = "ok" THEN result' = "exit0" /\ pc' = Break(at)
            ELSE Finish("err")
    /\ UNCHANGED mainFrame /\ UNCHANGED wine_path

MainBattlenet == MainRun("battlenet", "install_battlenet")
MainHoyoplay == MainRun("hoyoplay", "install_hoyoplay")
MainPostSetup == MainRun("postsetup", "run_hoyoplay_postsetup")

\* "Do you want to continue? (yes/no)"
MainConfirm ==
    /\ MainAt("confirm")
    /\ \E a \in Answers :
         /\ trace' = Append(trace, Event("confirm", TrimLower[a], 0))
         /\ IF IsYes(a) THEN pc' = "postsetup" /\ UNCHANGED result
            ELSE Finish("exit0")
    /\ UNCHANGED mainFrame /\ UNCHANGED wine_path

InitMain ==
    /\ prog = "main"
    /\ host \in InstallHosts /\ host.io /\ host.which /\ host.curl
    /\ fs = EmptyFs /\ dlLog = << >>
    /\ pc = "start" /\ app = "none" /\ install_dir = "" /\ found_location = "none"
    /\ trace = << >> /\ result = "running"
    /\ InertVdf /\ InertCopy /\ InertPrefix /\ InertAppid /\ InertLink /\ InertPs
    /\ wineEnv \in WineEnvs
    /\ wine_path = ""
    /\ InertReg

NextMain ==
    \/ MainFindWine \/ MainMenu \/ MainBattlenet \/ MainHoyoplay
    \/ MainConfirm \/ MainPostSetup

SpecMain == InitMain /\ [][NextMain]_vars

\* the operator answers every prompt and every operation called returns
SpecMainFair == SpecMain /\ WF_vars(NextMain)

----------------------------------------------------------------------------
(* Properties of the install flows (checked under Spec) *)

Finished == pc = "done"
Accepting == {"yes", "y"}
AskedContinue == Has(trace, "ask_continue")
ContinueAnswer == EventsOf(trace, "ask_continue")[1].arg
CopyFailed == \E i \in 1..Len(trace) : trace[i].ev = "copy" /\ trace[i].arg = "err"
CopySucceeded == \E i \in 1..Len(trace) : trace[i].ev = "copy" /\ trace[i].arg = "ok"
\* a launch that was started and exited with a non-zero code
ExitedNonZero(e) == e.st > 0

\* C1: in every install (Battle.net and HoYoPlay), once the first installer
\* launch has exited non-zero, exactly one more launch, in interactive mode,
\* precedes any continue/abort question and the end of the install; no
\* install launches the installer more than twice.
C1_SilentThenInteractiveOnce ==
    LET L == Launches(trace)
    IN  /\ Len(L) <= 2
        /\ (Len(L) >= 1 /\ ExitedNonZero(L[1]) /\ (AskedContinue \/ Finished))
              => (Len(L) = 2 /\ L[2].arg = "interactive")

\* C3: in every install a removal of the sandbox copy directly follows a
\* delete question that was answered yes/y; and when the discovered directory
\* is not the destination the tree copy is made and, once it succeeded, the
\* removal is offered.
C3_RemovalOnlyOnAcceptedOffer ==
    /\ \A i \in 1..Len(trace) :
          trace[i].ev = "remove" =>
              /\ i > 1
              /\ trace[i - 1].ev = "ask_delete"
              /\ trace[i - 1].arg \in Accepting
    /\ (Finished /\ found_location # "none" /\ <<found_location>> # Resolve(install_dir))
          => /\ Has(trace, "copy")
             /\ (CopySucceeded => Has(trace, "ask_delete"))

\* C4: an install whose relocation copy failed with an I/O error does not
\* return success, for both installers.
C4_CopyErrorIsFatal == (Finished /\ CopyFailed) => result # "ok"

\* C5: at the end of an install the continue/abort question has been asked
\* exactly if the last installer launch exited non-zero; the install returns
\* the cancellation error exactly if the question was asked and the answer
\* was not yes/y; and after a failed silent launch followed by an interactive
\* launch exiting 0 the install returns success without the question, after
\* cleanup, discovery and (when the discovered string differs) the copy.
C5_DecisionIffLastLaunchFailed ==
    LET L == Launches(trace)
    IN  Finished =>
          /\ (L # << >>) => (AskedContinue <=> ExitedNonZero(L[Len(L)]))
          /\ (result = "err:cancelled")
                <=> (AskedContinue /\ ContinueAnswer \notin Accepting)
          /\ (Len(L) = 2 /\ ExitedNonZero(L[1]) /\ L[2].st = 0)
                => /\ result = "ok"
                   /\ ~AskedContinue
                   /\ Has(trace, "cleanup") /\ Has(trace, "probe")
                   /\ (found_location # "none" /\ found_location # install_dir)
                         => Has(trace, "copy")

C5_Witness ==
    LET L == Launches(trace)
    IN  /\ Finished /\ result = "ok"
        /\ Len(L) = 2 /\ ExitedNonZero(L[1]) /\ L[2].st = 0
        /\ ~AskedContinue /\ CopySucceeded

\* the outcome of the installer run, as the install driver decides it
Outcome ==
    LET L == Launches(trace)
    IN  IF result = "err:cancelled" THEN "Aborted"
        ELSE IF L # << >> /\ L[Len(L)].st = 0 THEN "Succeeded"
        ELSE IF AskedContinue /\ ContinueAnswer \in Accepting THEN "FailedContinued"
        ELSE "none"

\* C6: an install that ended with the outcome Succeeded or FailedContinued
\* issued the wineserver cleanup exactly once, after its last installer
\* launch and before its first discovery probe, and its return value is the
\* one fixed by the copy and removal steps alone, whatever the cleanup
\* command reported.
C6_CleanupOnceBetweenLaunchAndProbe ==
    (Finished /\ Outcome \in {"Succeeded", "FailedContinued"}) =>
        /\ Len(EventsOf(trace, "cleanup")) = 1
        /\ LastIdx(trace, "launch") < FirstIdx(trace, "cleanup")
        /\ Has(trace, "probe")
        /\ FirstIdx(trace, "cleanup") < FirstIdx(trace, "probe")
        /\ result = IF app = "hoyoplay" /\ CopyFailed THEN "err:copy"
                    ELSE IF app = "hoyoplay" /\ trace[Len(trace)] = Event("remove", "err", 0)
                         THEN "err:remove"
                    ELSE "ok"

C6_Witness ==
    /\ Finished /\ result = "ok" /\ Outcome = "FailedContinued"
    /\ EventsOf(trace, "cleanup")[1].arg = "spawn_err"
    /\ found_location # "none"

\* C9: discovery selects the first candidate, in the fixed order, that
\* exists and is a directory, and none when no candidate does; an install
\* whose discovery found nothing returns success without a tree copy and
\* without a removal.
C9_FirstQualifyingCandidate ==
    LET c == Candidates(app)
    IN  /\ (trace # << >> /\ trace[Len(trace)].ev = "probe") =>
              IF found_location = "none"
              THEN \A i \in 1..Len(c) : ~(Exists(fs, <<c[i]>>) /\ IsDir(fs, <<c[i]>>))
              ELSE \E k \in 1..Len(c) :
                      /\ c[k] = found_location
                      /\ Exists(fs, <<c[k]>>) /\ IsDir(fs, <<c[k]>>)
                      /\ \A j \in 1..(k - 1) :
                            ~(Exists(fs, <<c[j]>>) /\ IsDir(fs, <<c[j]>>))
        /\ (Finished /\ Has(trace, "probe") /\ found_location = "none")
              => (result = "ok" /\ ~Has(trace, "copy") /\ ~Has(trace, "remove"))

C9_Witness ==
    /\ trace # << >> /\ trace[Len(trace)].ev = "probe"
    /\ IsFile(fs, <<"PF">>)
    /\ found_location = "PF86"
    /\ IsDir(fs, <<"CG">>)

----------------------------------------------------------------------------
(* Properties of download_file (checked under SpecDownload) *)

\* the strategy the tools installed on the host call for
PreferredStrategy(h) == IF h.curl THEN "curl" ELSE IF h.wget THEN "wget" ELSE "http"

\* C2: a call with an absent destination starts curl when curl is
\* installed, wget when only wget is, and the in-process HTTP client when
\* neither is; in that last case, the HTTP exchange succeeding, the call
\* returns success with the destination written.
C2_StrategyByAvailability ==
    \A i \in 1..Len(dlLog) :
        (~dlLog[i].existed /\ host.io) =>
            /\ dlLog[i].attempts = <<PreferredStrategy(host)>>
            /\ (~host.curl /\ ~host.wget /\ host.http = "ok")
                  => (dlLog[i].ok /\ dlLog[i].written)

\* C7: a call whose destination exists returns success, starts no transfer
\* and leaves the filesystem as it was; two consecutive calls for one
\* target, the first successful and having written it, start at most one
\* transfer together.
C7_ExistingDestinationIsNoOp ==
    /\ \A i \in 1..Len(dlLog) :
          dlLog[i].existed =>
              (dlLog[i].ok /\ dlLog[i].attempts = << >> /\ dlLog[i].same)
    /\ \A i \in 1..(Len(dlLog) - 1) :
          (dlLog[i].dest = dlLog[i + 1].dest /\ dlLog[i].ok /\ dlLog[i].written)
              => Len(dlLog[i].attempts) + Len(dlLog[i + 1].attempts) <= 1

C7_Witness ==
    \E i \in 1..(Len(dlLog) - 1) :
        /\ dlLog[i].dest = dlLog[i + 1].dest
        /\ ~dlLog[i].existed /\ dlLog[i].ok /\ dlLog[i].written
        /\ Len(dlLog[i].attempts) = 1
        /\ dlLog[i + 1].existed /\ dlLog[i + 1].ok

\* C8: one call starts at most one transfer strategy, and a call whose
\* external tool could not be executed or exited non-zero returns an error
\* with no further strategy started.
C8_NoFallbackAfterFailure ==
    \A i \in 1..Len(dlLog) :
        LET a == dlLog[i].attempts
        IN  /\ Len(a) <= 1
            /\ (a # << >> /\ a[1] \in {"curl", "wget"}
                  /\ (~host[a[1]] \/ host.tool # "ok"))
                  => (~dlLog[i].ok /\ Len(a) = 1)

C8_Witness ==
    \E i \in 1..Len(dlLog) :
        /\ dlLog[i].attempts = <<"curl">> /\ ~dlLog[i].ok
        /\ host.curl /\ host.tool = "fail"
        /\ host.http = "ok"

----------------------------------------------------------------------------
(* Properties of find_steam_libraries (checked under SpecVdf) *)

\* the file with its malformed "path" lines taken out
WithoutMalformed(file) ==
    [file EXCEPT !.lines = SelectSeq(file.lines, LAMBDA k : ~Malformed(k))]

\* C10: on a readable file the call succeeds and returns the roots it
\* returns for the same file without its malformed "path" lines: such a line
\* adds no root and takes none away.
C10_MalformedLineIsSkipped ==
    (libraries.done /\ vdf.st = "present") =>
        /\ libraries.ok
        /\ libraries.libs = FindSteamLibraries(WithoutMalformed(vdf)).libs

\* the "path" lines that carry a quoted value, and the root each one stands for
IsPathLine(kind) == kind \in {"path_x", "path_yz", "path_w"}
ExpectedRoot(kind) ==
    CASE kind = "path_x" -> <<"x">>
      [] kind = "path_yz" -> <<"y", "/", "z">>
      [] OTHER -> <<"w", Backslash, "w">>
ExpectedRoots(lines) ==
    LET pl == SelectSeq(lines, IsPathLine)
    IN  [i \in 1..Len(pl) |-> ExpectedRoot(pl[i])]
WellFormed(file) == \A i \in 1..Len(file.lines) : ~Malformed(file.lines[i])
EmptyVdf(file) == file.st = "present" /\ Content(file.lines) = << >>
HasBackslash(v) == \E j \in 1..Len(v) : v[j] = Backslash
HasBackslashPair(v) == \E j \in 1..(Len(v) - 1) : v[j] = Backslash /\ v[j + 1] = Backslash

\* C11: when the library-description file is missing or has no content at
\* all, find_steam_libraries returns an error and no list of roots.
C11_MissingOrEmptyIsError ==
    (libraries.done /\ (vdf.st = "missing" \/ EmptyVdf(vdf))) =>
        (~libraries.ok /\ libraries.libs = << >>)

\* C12: on a readable file the call returns the primary root followed by one
\* root per "path" "<value>" line, in file order, duplicates kept; every
\* other line adds nothing.
C12_RootThenOnePerPathLine ==
    (libraries.done /\ vdf.st = "present") =>
        /\ libraries.ok
        /\ libraries.libs = <<SteamRoot>> \o ExpectedRoots(vdf.lines)

\* C13 (as stated): no root taken from the file contains a backslash.
C13_NoBackslashInRoots ==
    (libraries.done /\ libraries.ok) =>
        \A i \in 2..Len(libraries.libs) : ~HasBackslash(libraries.libs[i])

\* C13 (amended): every pair of adjacent backslashes of a "path" value
\* becomes one forward slash, so no root keeps two adjacent backslashes; a
\* backslash that stands alone is kept as it is.
C13_DoubledBackslashBecomesSlash ==
    (libraries.done /\ libraries.ok) =>
        /\ \A i \in 2..Len(libraries.libs) : ~HasBackslashPair(libraries.libs[i])
        /\ WellFormed(vdf) =>
              SubSeq(libraries.libs, 2, Len(libraries.libs)) = ExpectedRoots(vdf.lines)
C13_Witness ==
    /\ libraries.done /\ libraries.ok
    /\ \E i \in 1..Len(vdf.lines) : vdf.lines[i] = "path_yz"
    /\ \E i \in 2..Len(libraries.libs) : libraries.libs[i] = <<"y", "/", "z">>
    /\ \E i \in 2..Len(libraries.libs) : HasBackslash(libraries.libs[i])

----------------------------------------------------------------------------
(* Properties of copy_dir_recursive (checked under SpecCopy) *)

\* the path under root b that corresponds to path p under root a
Rebase(p, a, b) == b \o SubSeq(p, Len(a) + 1, Len(p))
SrcPaths == {p \in Paths : IsUnder(p, copyCall.src)}
FailedOps == {i \in 1..Len(copyCall.log) : ~copyCall.log[i].ok}
Touched == {copyCall.log[i].path : i \in 1..Len(copyCall.log) \ FailedOps}

\* C14: after a successful call every file under src is under dst at the same
\* relative path with the content it had, every directory under src is a
\* directory under dst, an absent dst has been created, and nothing under src
\* has changed.
C14_CopyReproducesTree ==
    (copyCall.done /\ copyCall.ok) =>
        /\ \A p \in SrcPaths :
              /\ IsFile(copyCall.before, p) =>
                    fs[Rebase(p, copyCall.src, copyCall.dst)] = copyCall.before[p]
              /\ IsDir(copyCall.before, p) =>
                    IsDir(fs, Rebase(p, copyCall.src, copyCall.dst))
              /\ fs[p] = copyCall.before[p]
        /\ IsDir(fs, copyCall.dst)

\* C15: a call that fails has exactly one failed operation, the last one it
\* performed; everything the operations before it created is still there,
\* and no path other than theirs has changed.
C15_FailFastNoRollback ==
    copyCall.done =>
        /\ copyCall.ok <=> FailedOps = {}
        /\ ~copyCall.ok =>
              /\ FailedOps = {Len(copyCall.log)}
              /\ \A i \in 1..(Len(copyCall.log) - 1) :
                    LET o == copyCall.log[i]
                    IN  IF o.op = "copy" THEN IsFile(fs, o.path) ELSE IsDir(fs, o.path)
              /\ \A p \in Paths : fs[p] # copyCall.before[p] => p \in Touched
C15_Witness ==
    /\ copyCall.done /\ ~copyCall.ok
    /\ \E i \in 1..Len(copyCall.log) :
          copyCall.log[i].op = "copy" /\ copyCall.log[i].ok
    /\ copyCall.log[Len(copyCall.log)].path = copyCall.dst \o <<"data">>
    /\ ~Exists(fs, copyCall.dst \o <<"data", "pak">>)
    /\ Exists(copyCall.before, copyCall.src \o <<"data", "pak">>)

----------------------------------------------------------------------------
(* Properties of find_prefix_path (checked under SpecPrefix) *)

\* positions of the list whose root has the sandbox path as a directory
Hits == {i \in 1..Len(prefixCall.libs) :
            sandbox[<<prefixCall.libs[i], prefixCall.id>>] = "dir"}
Earliest(S) == CHOOSE i \in S : \A j \in S : i <= j

\* C16: the call returns <r>/steamapps/compatdata/<id>/pfx for the earliest
\* root r of the list under which that path is a directory, and none when no
\* root of the list has it.
C16_EarliestRootWithPrefix ==
    prefixCall.done =>
        IF Hits = {} THEN ~prefixCall.res.some
        ELSE /\ prefixCall.res.some
             /\ prefixCall.res.val =
                   <<prefixCall.libs[Earliest(Hits)], "steamapps", "compatdata",
                     prefixCall.id, "pfx">>
C16_Witness ==
    /\ prefixCall.done /\ prefixCall.res.some
    /\ Cardinality(Hits) >= 2
    /\ Earliest(Hits) > 1
    /\ \E i \in 1..(Earliest(Hits) - 1) :
          sandbox[<<prefixCall.libs[i], prefixCall.id>>] = "file"

----------------------------------------------------------------------------
(* Properties of extract_appid (checked under SpecAppid) *)

\* positions m such that the line ends with "(", a non-empty run of digits
\* starting right after m, and ")"
ParenStarts ==
    LET l == appidCall.line
    IN  {m \in 1..(Len(l) - 2) :
            /\ l[m] = "(" /\ l[Len(l)] = ")"
            /\ \A j \in (m + 1)..(Len(l) - 1) : l[j] \in Digits}

\* C17: the call returns the digit run d exactly when the line ends with
\* "(" d ")" for a non-empty run of digits d, and none otherwise.
C17_TrailingParenthesizedDigits ==
    appidCall.done =>
        /\ appidCall.res.some <=> ParenStarts # {}
        /\ \A m \in ParenStarts :
              appidCall.res.val = SubSeq(appidCall.line, m + 1, Len(appidCall.line) - 1)
C17_Witness ==
    /\ appidCall.done /\ appidCall.res.some
    /\ appidCall.res.val = <<"1", "2">>
    /\ appidCall.line[1] = "(" /\ appidCall.line[2] = "("

----------------------------------------------------------------------------
(* Properties of setup_linux_root_symlink (checked under SpecLink) *)

\* calls of the log made on sandbox k
CallsOn(k) == SelectSeq(linkLog, LAMBDA c : c.pfx = k)

----------------------------------------------------------------------------
(* Properties of run_hoyoplay_postsetup (checked under SpecPostSetup) *)

\* event ev with argument arg is in the trace, before position n
DoneBefore(ev, arg, n) == \E i \in 1..(n - 1) : trace[i].ev = ev /\ trace[i].arg = arg
\* the four steps before the sandbox is touched have all succeeded before n
Resolved(n) ==
    /\ \E i \in 1..(n - 1) : trace[i].ev = "list" /\ trace[i].arg = "ok" /\ trace[i].st >= 1
    /\ \E i \in 1..(n - 1) :
          trace[i].ev = "select" /\ trace[i].st >= 1 /\ trace[i].st <= Len(games)
    /\ DoneBefore("appid", "some", n)
    /\ DoneBefore("prefix", "some", n)
LinkCreated == \E k \in DOMAIN links : links[k] = "link"
RegInvoked == Has(trace, "reg")
SandboxTouched ==
    linkLog # << >> \/ Has(trace, "link") \/ LinkCreated \/ RegInvoked \/ registry # {}

\* C19: the link step and the registry edit happen only after the listing
\* returned at least one entry, a valid entry was selected, its application
\* ID was extracted and its sandbox was found; a run in which one of these
\* fails ends in an error with no link created and no registry edit
\* invoked; the registry edit is invoked only after the link step returned
\* success.
C19_SandboxTouchedOnlyWhenResolved ==
    /\ SandboxTouched => (Has(trace, "link") /\ Resolved(FirstIdx(trace, "link")))
    /\ (pc = "done" /\ ~Resolved(Len(trace) + 1)) =>
          (result # "ok" /\ ~SandboxTouched)
    /\ RegInvoked =>
          \E i \in 1..(FirstIdx(trace, "reg") - 1) : trace[i].ev = "link" /\ trace[i].st = 1
    /\ registry # {} => RegInvoked
C19_Witness ==
    /\ pc = "done" /\ result = "ok"
    /\ LinkCreated /\ registry # {}
    /\ Len(games) = 2
    /\ \E i \in 1..Len(trace) : trace[i].ev = "select" /\ trace[i].st = 2
    /\ prefixCall.res.val[1] # SteamRoot

----------------------------------------------------------------------------
(* Properties of main (checked under SpecMain) *)

\* a location holds a wine that starts and reports its version
Usable(loc) == wineEnv.kind[loc] = "file" /\ wineEnv.version[loc] = "ok"
\* the lookup through PATH and every fixed location fail
NoWineAnywhere ==
    /\ ~(wineEnv.which \in WineLocations /\ Usable(wineEnv.which))
    /\ \A i \in 1..Len(WinePaths) : ~Usable(WinePaths[i])
OperationEvents == {"install_battlenet", "install_hoyoplay", "run_hoyoplay_postsetup"}

\* C20: when neither the command lookup nor a fixed location gives a wine,
\* the program ends with failure right after the search: no menu choice is
\* read and no install and no post-setup is run.
C20_NoWineNoMenu ==
    (NoWineAnywhere /\ pc # "start") =>
        /\ pc = "done" /\ result = "exit1"
        /\ wine_path = ""
        /\ \A i \in 1..Len(trace) :
              trace[i].ev \notin OperationEvents \cup {"choice", "confirm"}
C20_Witness ==
    /\ NoWineAnywhere /\ pc = "done" /\ result = "exit1"
    /\ wineEnv.which = "/opt/wine" /\ wineEnv.kind["/opt/wine"] = "dir"
    /\ wineEnv.kind["/usr/bin/wine"] = "file"

----------------------------------------------------------------------------
(* Properties of remove_window_decorations (checked under SpecReg) *)

\* C21: every call starts the registry edit exactly once, with wine64 when
\* wine64 is installed and with wine otherwise; when the edit exits non-zero
\* the call returns an error, having run nothing more and written nothing.
C21_OneRegistryEditPerCall ==
    \A i \in 1..Len(regLog) :
        LET c == regLog[i]
        IN  /\ Len(c.cmds) = 1
            /\ c.cmds[1].bin = (IF c.has64 THEN "wine64" ELSE "wine")
            /\ c.ok <=> c.out = "ok"
            /\ c.out = "fail" => (~c.ok /\ c.same)
            /\ c.ok => c.written
C21_Witness ==
    /\ Len(regLog) >= 2
    /\ regLog[1].has64 /\ regLog[1].out = "fail" /\ ~regLog[1].ok
    /\ regLog[1].cmds[1].bin = "wine64" /\ ~regLog[1].written
    /\ ~regLog[2].has64 /\ regLog[2].ok /\ regLog[2].cmds[1].bin = "wine"

----------------------------------------------------------------------------
(* Properties of the payload across an install (checked under SpecFair) *)

\* the files the installer leaves, with their content, under root
PayloadAt(f, root) ==
    /\ root \o <<"exe">> \in DOMAIN f /\ f[root \o <<"exe">>] = "file:exe"
    /\ root \o <<"data", "pak">> \in DOMAIN f
    /\ f[root \o <<"data", "pak">>] = "file:pak"
\* the state right after a discovery that selected a directory holding them
FoundPayload ==
    /\ trace # << >> /\ trace[Len(trace)].ev = "probe"
    /\ found_location # "none"
    /\ PayloadAt(fs, <<found_location>>)
SameDirectory == Resolve(install_dir) = <<found_location>>
PayloadKept ==
    /\ PayloadAt(fs, Resolve(install_dir)) \/ PayloadAt(fs, <<found_location>>)
    /\ SameDirectory => (~Has(trace, "copy") /\ ~Has(trace, "remove"))

\* C22: once discovery has selected a directory that holds the payload, an
\* install that returns success leaves the payload files, with their
\* content, at the requested destination or at the discovered location; and
\* when the two are the same directory it has neither copied nor removed.
C22_PayloadSurvivesInstall ==
    [](FoundPayload => []((Finished /\ result = "ok") => PayloadKept))

----------------------------------------------------------------------------
(* Properties of find_system_wine (checked under SpecMain) *)

\* the path `which wine` printed exists and answers --version
LookupUsable == wineEnv.which \in WineLocations /\ Usable(wineEnv.which)
VersionRuns == EventsOf(trace, "wine_version")
FixedExamined == EventsOf(trace, "wine_fixed")

\* C23: the search returns a path only if `--version` started from that
\* path succeeded; a lookup candidate that passes is returned and no fixed
\* location is examined; the fixed locations are examined in the order
\* /usr/bin/wine, /usr/local/bin/wine, the second only when the first was
\* not accepted, and one is accepted only if it is a regular file.
C23_WineFoundOnlyIfVersionRuns ==
    pc # "start" =>
        /\ wine_path # "" =>
              \E i \in 1..Len(VersionRuns) :
                  /\ VersionRuns[i].arg = wine_path /\ VersionRuns[i].st = 1
                  /\ i = Len(VersionRuns)
        /\ LookupUsable => (wine_path = wineEnv.which /\ FixedExamined = << >>)
        /\ Len(FixedExamined) <= Len(WinePaths)
        /\ \A i \in 1..Len(FixedExamined) : FixedExamined[i].arg = WinePaths[i]
        /\ Len(FixedExamined) = 2 => ~Usable(WinePaths[1])
        /\ (wine_path # "" /\ ~LookupUsable) =>
              /\ wineEnv.kind[wine_path] = "file"
              /\ FixedExamined[Len(FixedExamined)] = Event("wine_fixed", wine_path, 1)
        /\ (wine_path = "" /\ ~LookupUsable) => Len(FixedExamined) = Len(WinePaths)
C23_Witness ==
    /\ pc = "menu"
    /\ wineEnv.which = "/opt/wine" /\ wineEnv.kind["/opt/wine"] = "file"
    /\ wineEnv.version["/opt/wine"] = "fail"
    /\ wineEnv.kind["/usr/bin/wine"] = "dir"
    /\ wine_path = "/usr/local/bin/wine"
    /\ Len(VersionRuns) = 2 /\ Len(FixedExamined) = 2

----------------------------------------------------------------------------
(* Properties of a refused continue/abort decision (checked under Spec) *)

Cancelled(r) == r = "err:cancelled"
FsEvents == {"probe", "copy", "remove"}

\* C24: the step that refuses to continue ends the install with the
\* filesystem as it was: the trace holds no probe, no copy and no removal,
\* nothing was discovered, the destination directory created earlier is
\* still a directory; and no step of the install follows the refusal.
C24_RefusalTouchesNothing ==
    [][/\ Cancelled(result) => UNCHANGED vars
       /\ (~Cancelled(result) /\ Cancelled(result')) =>
             /\ pc' = "done"
             /\ fs' = fs
             /\ found_location' = "none"
             /\ \A i \in 1..Len(trace') : trace'[i].ev \notin FsEvents
             /\ trace'[Len(trace')].ev = "ask_continue"
             /\ trace'[Len(trace')].arg \notin Accepting
             /\ IsDir(fs', Resolve(install_dir'))]_vars
C24_Witness ==
    /\ Finished /\ Cancelled(result)
    /\ app = "hoyoplay" /\ install_dir = "HP"
    /\ Has(trace, "cleanup")
    /\ IsFile(fs, <<"HP", "exe">>)

----------------------------------------------------------------------------
(* Properties of the menu loop (checked under SpecMainFair) *)

ValidChoices == {"1", "2", "3", "4"}
ChoicesMade == EventsOf(trace, "choice")
ValidChosen == \E i \in 1..Len(ChoicesMade) : ChoicesMade[i].arg \in ValidChoices
OperationsRun ==
    {i \in 1..Len(trace) : trace[i].ev \in OperationEvents}
OperationFailed == \E i \in OperationsRun : trace[i].arg = "err"
\* a step that reads a choice that is none of 1..4
InvalidChoiceStep ==
    /\ Len(trace') = Len(trace) + 1
    /\ trace'[Len(trace')].ev = "choice"
    /\ trace'[Len(trace')].arg \notin ValidChoices
OneActionPerRun ==
    /\ Cardinality(OperationsRun) <= 1
    /\ \A i \in 1..(Len(ChoicesMade) - 1) : ChoicesMade[i].arg \notin ValidChoices
    /\ OperationsRun # {} => ValidChosen
    /\ (Finished /\ ValidChosen) =>
          /\ result \in {"exit0", "err"}
          /\ result = "err" <=> OperationFailed
    /\ OperationFailed => (Finished /\ result = "err")

\* C25: a run calls at most one install or post-setup; a choice other than
\* 1..4 changes nothing but brings the menu back; only the last choice read
\* can be a valid one; once a valid choice is read the program ends, and it
\* ends with failure exactly when the operation it called returned an error.
C25_OneActionThenExit ==
    /\ []OneActionPerRun
    /\ [][InvalidChoiceStep =>
             /\ pc = "menu" /\ pc' = "menu"
             /\ UNCHANGED <<result, wine_path>> /\ UNCHANGED mainFrame]_vars
    /\ (ValidChosen ~> Finished)
C25_Witness ==
    /\ Finished /\ result = "err"
    /\ Len(ChoicesMade) = 2
    /\ ChoicesMade[1].arg = "5" /\ ChoicesMade[2].arg = "3"
    /\ Has(trace, "confirm")
    /\ trace[Len(trace)] = Event("run_hoyoplay_postsetup", "err", 0)

====
